---------------------------- MODULE Spec2Model ----------------------------
(***************************************************************************)
(* A model of the triangle-sketch renderer (Nathan-Fenner/triangle-sketch): *)
(* the TriPt / Pt3 identity caches, the Mesh, cubeFace / cubeDepth, the     *)
(* sun-ray caster, drawScene and drawMesh.                                  *)
(*                                                                         *)
(* Numbers.  The program computes with IEEE doubles; the model computes     *)
(* with integers on fixed scales:                                          *)
(*   - a depth key is held times 100 (Pt3.depth's coefficient 0.01 or 1.01  *)
(*     becomes 1 or 101, drawMesh's effect offset 0.5 becomes 50);          *)
(*   - the ray parameter t is held in quarters (stepSize 0.25 is 1) and     *)
(*     Math.round(x) is floor(x + 1/2);                                     *)
(*   - a lightness is held times 600 (cy/20 is 30*cy, cx/30 is 20*cx, 0.08  *)
(*     is 48, 0.25 is 150, 0.3 is 180, 0.2 is 120);                         *)
(*   - a colour channel is held times 100*600.                              *)
(* On the voxel coordinates used below the doubles never reverse a strict   *)
(* order of the exact depth keys, and the rounded ray samples are exactly   *)
(* the ones computed here.                                                  *)
(*                                                                         *)
(* Versions.  The repository holds the program twice, src/src/App.tsx and  *)
(* the later src/unnamed/part_000; `variant` says which of the two runs.   *)
(* They differ in the coefficient of Pt3.depth, in the shadow bonus, in    *)
(* where drawScene applies perturbColor, in what cubeDepth stores beside   *)
(* the depth, and in drawMesh (sorted, with effect entries, in part_000).  *)
(* Where nothing is said a definition models part_000, and App.tsx has the *)
(* same code.                                                              *)
(*                                                                         *)
(* Objects.  A TriPt or Pt3 object is a record that carries an id: two      *)
(* records are the same object (=== in the program) exactly when they are   *)
(* equal.  An id is handed out only when the constructor keeps `this`; the  *)
(* `this` it throws away on a cache hit is never observable.                *)
(***************************************************************************)
EXTENDS Integers, Sequences, FiniteSets, TLC

VARIABLES
    variant,    \* which of the two versions of the source is running
    triCache,   \* TriPt.cache : key string -> TriPt object
    pt3Cache,   \* Pt3.cache   : key string -> Pt3 object
    nextId,     \* the next fresh object identity
    built,      \* history: every construction requested, in order, with the object returned
    mesh,       \* the Mesh: [left, right], each an insertion-ordered Map of <<t, v>>
    stamps,     \* history: the cubeDepth calls made on `mesh`, in order
    writes,     \* history: the Mesh.set and Mesh.update calls a client made on `mesh`, in order
    last,       \* history: the last library call and what it returned
    canvas      \* the paint commands issued on the 2D context, in order

vars == <<variant, triCache, pt3Cache, nextId, built, mesh, stamps, writes, last, canvas>>

-----------------------------------------------------------------------------
(* Bounds of the model *)

\* largest number of constructor calls in one behaviour of SpecCache
MaxBuilds == 3

\* largest number of cubeDepth calls on one mesh in SpecStamp
MaxStamps == 3

\* largest number of cubeFace calls on one mesh in SpecFace
MaxFaceCalls == 2

\* largest number of voxels in a scene (SpecRay, SpecScene)
MaxCubes == 2

\* the voxels a scene is made of: the origin, the voxel in front of it (+z),
\* the voxel on top of it (+y), two voxels in the sun's way of its top and
\* right faces, and the voxel that projects to the same corner
SceneVoxels ==
    {<<0, 0, 0>>, <<0, 0, 1>>, <<0, 1, 0>>, <<1, 1, 0>>, <<1, 0, 1>>, <<-1, 1, 1>>}

\* coordinates handed to the constructors in SpecCache
CacheCoords == {-1, 11}

\* the shifts the program applies to a TriPt (cubeFace, the fill helpers)
TriShifts == {<<1, -1>>, <<0, -1>>, <<-1, 0>>, <<0, 1>>, <<1, 0>>, <<-1, 1>>}

\* the shifts the program applies to a Pt3 (drawScene)
Pt3Shifts == {<<0, 1, 0>>, <<0, 0, 1>>}

\* the voxels SpecStamp stamps: the origin, its neighbours in front (+z),
\* above (+y) and behind (+x), and the voxel one step towards the viewer
\* that projects to the same corner
StampVoxels == {<<0, 0, 0>>, <<0, 0, 1>>, <<0, 1, 0>>, <<1, 0, 0>>, <<-1, 1, 1>>}

Variants == {"App.tsx", "part_000"}

-----------------------------------------------------------------------------
\* The one member of a set of one member.  Only({F(x) : x \in {e}}) is
\* F(e) with e evaluated once, before F.
Only(S) == CHOOSE x \in S : TRUE

-----------------------------------------------------------------------------
(* TriPt and Pt3: objects canonicalised through a static cache *)

\* the template literal `${tx};${ty}`
TriKey(tx, ty) == ToString(tx) \o ";" \o ToString(ty)

\* the template literal `${cx};${cy};${cz}`
Pt3Key(cx, cy, cz) == ToString(cx) \o ";" \o ToString(cy) \o ";" \o ToString(cz)

\* The program state the library functions read and write, threaded through
\* the operators below: the two caches, the id counter, the mesh and the log
\* of Mesh.update calls.
Machine(tri, p3, next, m) ==
    [tri |-> tri, p3 |-> p3, next |-> next, mesh |-> m, upd |-> <<>>]

\* a plausible slip: the constructor forgets to return the cached object
NewTriPtNoReturn(st, tx, ty) ==
    LET k == TriKey(tx, ty)
        this == [id |-> st.next, tx |-> tx, ty |-> ty]
    IN  [st  |-> [st EXCEPT !.tri = (k :> this) @@ @, !.next = @ + 1],
         obj |-> this]

\* new TriPt(tx, ty)
NewTriPt(st, tx, ty) ==
    LET k == TriKey(tx, ty)
        this == [id |-> st.next, tx |-> tx, ty |-> ty]
    IN  IF k \in DOMAIN st.tri
        THEN [st |-> st, obj |-> st.tri[k]]
        ELSE [st  |-> [st EXCEPT !.tri = @ @@ (k :> this), !.next = @ + 1],
              obj |-> this]

\* TriPt.shift(dx, dy)
TriShift(st, c, dx, dy) == NewTriPt(st, c.tx + dx, c.ty + dy)

\* a plausible slip: the constructor forgets to return the cached object
NewPt3NoReturn(st, cx, cy, cz) ==
    LET k == Pt3Key(cx, cy, cz)
        this == [id |-> st.next, cx |-> cx, cy |-> cy, cz |-> cz]
    IN  [st  |-> [st EXCEPT !.p3 = (k :> this) @@ @, !.next = @ + 1],
         obj |-> this]

\* new Pt3(cx, cy, cz)
NewPt3(st, cx, cy, cz) ==
    LET k == Pt3Key(cx, cy, cz)
        this == [id |-> st.next, cx |-> cx, cy |-> cy, cz |-> cz]
    IN  IF k \in DOMAIN st.p3
        THEN [st |-> st, obj |-> st.p3[k]]
        ELSE [st  |-> [st EXCEPT !.p3 = @ @@ (k :> this), !.next = @ + 1],
              obj |-> this]

\* pt3(cx, cy, cz)
pt3(st, cx, cy, cz) == NewPt3(st, cx, cy, cz)

\* Pt3.shift(dx, dy, dz)
Pt3Shift(st, p, dx, dy, dz) == NewPt3(st, p.cx + dx, p.cy + dy, p.cz + dz)

\* a plausible slip: the projection forgets that cz also lowers the corner
Pt3TriFlat(st, p) == NewTriPt(st, p.cx + p.cz, p.cy)

\* Pt3.tri()
Pt3Tri(st, p) == NewTriPt(st, p.cx + p.cz, p.cy - p.cz)

\* the coordinates of a Pt3 object
Coords3(p) == <<p.cx, p.cy, p.cz>>

\* the coefficient of Pt3.depth, times 100: 0.01 in App.tsx, 1.01 in part_000
DepthCoef == IF variant = "App.tsx" THEN 1 ELSE 101

\* a plausible slip: the cx term of the depth key is left out
DepthNoX(p) == (0 - 100 * p.cy) - DepthCoef * p.cz

\* Pt3.depth(), times 100
Depth(p) == (0 - 100 * p.cy) - DepthCoef * p.cz + DepthCoef * p.cx

-----------------------------------------------------------------------------
(* Mesh *)

\* `null`
Null == [null |-> TRUE]

EmptyMesh == [left |-> <<>>, right |-> <<>>]

Sides == {"left", "right"}

\* Map.has
MapHas(m, t) == \E i \in 1..Len(m) : m[i].t = t

\* Map.get (of a key the map has)
MapGet(m, t) == m[CHOOSE i \in 1..Len(m) : m[i].t = t].v

\* Map.set: a key the map has keeps its place, a new key goes last
MapSet(m, t, v) ==
    IF MapHas(m, t)
    THEN [i \in 1..Len(m) |-> IF m[i].t = t THEN [t |-> t, v |-> v] ELSE m[i]]
    ELSE Append(m, [t |-> t, v |-> v])

\* Mesh.set
MeshSet(msh, t, side, v) == [msh EXCEPT ![side] = MapSet(@, t, v)]

\* Mesh.get
MeshGet(msh, t, side) ==
    IF ~MapHas(msh[side], t) THEN Null ELSE MapGet(msh[side], t)

\* a plausible slip: the closure of cubeDepth does not look at the depth
DepthChangeAlways(old, depth, face) == face @@ [depth |-> depth]

\* a plausible slip: the closure of cubeDepth compares with >= (ties overwrite)
DepthChangeTies(old, depth, face) ==
    IF old = Null \/ old.depth >= depth
    THEN face @@ [depth |-> depth]
    ELSE old

\* a plausible slip: the comparison is turned round (the farther value wins)
DepthChangeFarther(old, depth, face) ==
    IF old = Null \/ old.depth < depth
    THEN face @@ [depth |-> depth]
    ELSE old

\* the closure cubeDepth hands to cubeFace:
\*   old => (!old || old.depth > p.depth()) ? { depth: p.depth(), ...face } : old
\* `face` is the record of what the stamp stores beside the depth: the
\* colour and the style in part_000, the colour alone in App.tsx
DepthChange(old, depth, face) ==
    IF old = Null \/ old.depth > depth
    THEN face @@ [depth |-> depth]
    ELSE old

\* A `change` callback.  "depth" is cubeDepth's closure; "const" stores a
\* given value whatever was there; "keep" stores a value only where nothing
\* was stored; "wrap" stores a value that holds the value it was handed.
ApplyChange(change, old) ==
    CASE change.kind = "depth" -> DepthChange(old, change.depth, change.face)
      [] change.kind = "const" -> change.v
      [] change.kind = "keep"  -> IF old = Null THEN change.v ELSE old
      [] change.kind = "wrap"  -> [tag |-> change.tag, seen |-> old]

\* a plausible slip: the callback is handed null whatever the Map holds
MeshUpdateBlind(st, t, side, change) ==
    [st EXCEPT !.mesh = MeshSet(@, t, side, ApplyChange(change, Null)),
               !.upd = Append(@, [t |-> t, side |-> side])]

\* Mesh.update, logged
MeshUpdate(st, t, side, change) ==
    LET m == st.mesh[side]
        new == ApplyChange(change, IF MapHas(m, t) THEN MapGet(m, t) ELSE Null)
    IN  [st EXCEPT !.mesh = MeshSet(@, t, side, new),
                   !.upd = Append(@, [t |-> t, side |-> side])]

-----------------------------------------------------------------------------
(* cubeFace and cubeDepth *)

Faces == {"up", "right", "left"}

\* a plausible slip: the right face is stamped one corner too high
cubeFaceShifted(st, c, face, change) ==
    CASE face = "up" ->
            MeshUpdate(MeshUpdate(st, c, "right", change), c, "left", change)
      [] face = "right" ->
            LET a == TriShift(st, c, 1, 0)
                s1 == MeshUpdate(a.st, a.obj, "left", change)
                b == TriShift(s1, c, 0, -1)
            IN  MeshUpdate(b.st, b.obj, "right", change)
      [] face = "left" ->
            LET a == TriShift(st, c, 0, -1)
                s1 == MeshUpdate(a.st, a.obj, "left", change)
                b == TriShift(s1, c, -1, 0)
            IN  MeshUpdate(b.st, b.obj, "right", change)

\* cubeFace(mesh, c, face, change)
cubeFace(st, c, face, change) ==
    CASE face = "up" ->
            MeshUpdate(MeshUpdate(st, c, "right", change), c, "left", change)
      [] face = "right" ->
            LET a == TriShift(st, c, 1, -1)
                s1 == MeshUpdate(a.st, a.obj, "left", change)
                b == TriShift(s1, c, 0, -1)
            IN  MeshUpdate(b.st, b.obj, "right", change)
      [] face = "left" ->
            LET a == TriShift(st, c, 0, -1)
                s1 == MeshUpdate(a.st, a.obj, "left", change)
                b == TriShift(s1, c, -1, 0)
            IN  MeshUpdate(b.st, b.obj, "right", change)

\* a plausible slip: the left face is stamped from the corner one step to
\* the left
cubeDepthStray(st, p, surface) ==
    LET closure(face) == [kind |-> "depth", depth |-> Depth(p), face |-> face]
        t1 == Pt3Tri(st, p)
        s1 == cubeFace(t1.st, t1.obj, "up", closure(surface.top))
        t2 == Pt3Tri(s1, p)
        s2 == cubeFace(t2.st, t2.obj, "right", closure(surface.right))
        t3 == Pt3Tri(s2, p)
        t4 == TriShift(t3.st, t3.obj, -1, 0)
    IN  cubeFace(t4.st, t4.obj, "left", closure(surface.left))

\* cubeDepth(mesh, p, surface)
cubeDepth(st, p, surface) ==
    LET closure(face) == [kind |-> "depth", depth |-> Depth(p), face |-> face]
        t1 == Pt3Tri(st, p)
        s1 == cubeFace(t1.st, t1.obj, "up", closure(surface.top))
        t2 == Pt3Tri(s1, p)
        s2 == cubeFace(t2.st, t2.obj, "right", closure(surface.right))
        t3 == Pt3Tri(s2, p)
    IN  cubeFace(t3.st, t3.obj, "left", closure(surface.left))

-----------------------------------------------------------------------------
(* castSunRay *)

\* the members of a Set held as the sequence of its insertions
Members(cubes) == {cubes[i] : i \in 1..Len(cubes)}

\* castSunRay's default maxDistance
DefaultMaxDistance == 20

\* castSunRay's default stepSize, in quarters
DefaultStepQ == 1

\* a plausible slip: the ray also advances z, as it advances x
RayPointZ(from, tq) ==
    << (4 * from.cx + tq + 2) \div 4,
       (80 * from.cy + 19 * tq + 40) \div 80,
       (4 * from.cz + tq + 2) \div 4 >>

\* the arguments of pt3(...) in castSunRay at parameter t = tq/4:
\*   Math.round(from.cx + t), Math.round(from.cy + t * 0.95), Math.round(from.cz)
RayPoint(from, tq) ==
    << (4 * from.cx + tq + 2) \div 4,
       (80 * from.cy + 19 * tq + 40) \div 80,
       (2 * from.cz + 1) \div 2 >>

\* one turn of castSunRay's for loop, the n-th (t = n * stepSize): nothing
\* when the loop has ended (t < maxDistance fails) or has returned
RayStep(r, cubes, from, maxDistance, stepQ, n) ==
    IF r.result \/ ~(n * stepQ < 4 * maxDistance)
    THEN r
    ELSE LET c == RayPoint(from, n * stepQ)
             q == pt3(r.st, c[1], c[2], c[3])
         IN  [st |-> q.st, result |-> q.obj \in cubes,
              samples |-> Append(r.samples, q.obj)]

\* the turns a..b of the loop, in order (evaluated by halves)
RECURSIVE RayLoop(_, _, _, _, _, _, _)
RayLoop(r, cubes, from, maxDistance, stepQ, a, b) ==
    IF a > b THEN r
    ELSE IF a = b THEN RayStep(r, cubes, from, maxDistance, stepQ, a)
    ELSE LET mid == (a + b) \div 2
             half == RayLoop(r, cubes, from, maxDistance, stepQ, a, mid)
         IN  IF half.result THEN half
             ELSE RayLoop(half, cubes, from, maxDistance, stepQ, mid + 1, b)

\* castSunRay(cubes, from, maxDistance, stepSize), stepSize = stepQ/4 >= 1/4:
\* the loop makes at most 4 * maxDistance turns
castSunRay(st, cubes, from, maxDistance, stepQ) ==
    RayLoop([st |-> st, result |-> FALSE, samples |-> <<>>],
            cubes, from, maxDistance, stepQ, 0, 4 * maxDistance)

-----------------------------------------------------------------------------
(* Colours: interpolateRGB and perturbColor *)

\* a plausible slip: an empty palette gives black instead of throwing
interpolateRGBSilent(palette, v) ==
    IF Len(palette) = 0
    THEN [ok |-> TRUE, rgb |-> <<0, 0, 0>>]
    ELSE LET t == v * Len(palette)
             index == t \div 600
             amount == t - 600 * index
         IN  IF t <= 0
             THEN [ok |-> TRUE, rgb |-> [i \in 1..3 |-> 600 * palette[1][i]]]
             ELSE IF t >= 600 * (Len(palette) - 1)
             THEN [ok |-> TRUE, rgb |-> [i \in 1..3 |-> 600 * palette[Len(palette)][i]]]
             ELSE [ok |-> TRUE,
                   rgb |-> [i \in 1..3 |-> palette[index + 1][i] * (600 - amount)
                                            + palette[index + 2][i] * amount]]

\* interpolateRGB(palette, t): the stops are RGBs in hundredths, v is the
\* lightness times 600, the result an RGB times 100*600; `ok` is false when
\* the function throws
interpolateRGB(palette, v) ==
    IF Len(palette) = 0
    THEN [ok |-> FALSE, rgb |-> <<>>]
    ELSE LET t == v * Len(palette)
             index == t \div 600
             amount == t - 600 * index
         IN  IF t <= 0
             THEN [ok |-> TRUE, rgb |-> [i \in 1..3 |-> 600 * palette[1][i]]]
             ELSE IF t >= 600 * (Len(palette) - 1)
             THEN [ok |-> TRUE, rgb |-> [i \in 1..3 |-> 600 * palette[Len(palette)][i]]]
             ELSE [ok |-> TRUE,
                   rgb |-> [i \in 1..3 |-> palette[index + 1][i] * (600 - amount)
                                            + palette[index + 2][i] * amount]]

\* the strength drawScene perturbs the top colour with: 0.05, times 100*600
TopJitter == 3000

\* a plausible slip: the draw is not centred (Math.random() * 2 without - 1)
perturbColorUncentred(color, strength, rnd) ==
    [i \in 1..3 |-> color[i] + ((rnd[i] + 2) * strength) \div 2]

\* perturbColor(color, strength): rnd[i] is Math.random() * 2 - 1 of channel
\* i, in halves
perturbColor(color, strength, rnd) ==
    [i \in 1..3 |-> color[i] + (rnd[i] * strength) \div 2]

-----------------------------------------------------------------------------
(* drawMesh *)

\* the number of shapes drawMesh draws for one grass effect entry
BladeCount == 12

\* the depth drawMesh takes off an effect entry: 0.5, times 100
EffectOffset == 50

\* a plausible slip: the effect entries are put 0.5 behind their triangle
MeshEntriesEffectBehind(m, side, effect) ==
    [i \in 1..Len(m) |->
        [t |-> m[i].t, side |-> side, effect |-> effect,
         depth |-> IF effect THEN m[i].v.depth + EffectOffset ELSE m[i].v.depth,
         color |-> m[i].v.color, style |-> m[i].v.style]]

\* the entries drawMesh makes of one Map of the mesh
MeshEntries(m, side, effect) ==
    [i \in 1..Len(m) |->
        [t |-> m[i].t, side |-> side, effect |-> effect,
         depth |-> IF effect THEN m[i].v.depth - EffectOffset ELSE m[i].v.depth,
         color |-> m[i].v.color, style |-> m[i].v.style]]

\* a plausible slip: the list is painted as it was gathered
NoSort(list) == list

\* triangles.sort((a, b) => b.depth - a.depth): the stable sort by
\* descending depth (entry i goes behind every deeper entry and behind the
\* equally deep entries that came before it)
SortByDepth(list) ==
    LET pos(i) == 1 + Cardinality({j \in 1..Len(list) : list[j].depth > list[i].depth})
                    + Cardinality({j \in 1..(i - 1) : list[j].depth = list[i].depth})
    IN  [k \in 1..Len(list) |-> list[CHOOSE i \in 1..Len(list) : pos(i) = k]]

\* fillUpRight(ctx, c, color): the two corners it shifts to are constructed
fillUpRight(st, c) == TriShift(TriShift(st, c, 0, 1).st, c, 1, 0).st

\* fillUpLeft(ctx, c, color)
fillUpLeft(st, c) == TriShift(TriShift(st, c, -1, 1).st, c, 0, 1).st

\* triangleCorner1(t, side)
triangleCorner1(st, t, side) ==
    IF side = "left" THEN TriShift(st, t, -1, 1).st ELSE TriShift(st, t, 0, 1).st

\* triangleCorner2(t, side)
triangleCorner2(st, t, side) ==
    IF side = "left" THEN TriShift(st, t, 0, 1).st ELSE TriShift(st, t, 1, 0).st

\* a plausible slip: the base entries of the left Map are never filled
PaintEntryNoLeft(r, item) ==
    IF ~item.effect
    THEN IF item.side = "left" THEN r
         ELSE [st   |-> fillUpRight(r.st, item.t),
               cmds |-> Append(r.cmds, [kind |-> "fillUpRight", i |-> 0, item |-> item])]
    ELSE IF item.style = "grass"
    THEN [st   |-> triangleCorner2(triangleCorner1(r.st, item.t, item.side),
                                   item.t, item.side),
          cmds |-> r.cmds \o [i \in 1..BladeCount |->
                                [kind |-> "shape", i |-> i - 1, item |-> item]]]
    ELSE r

\* One turn of triangles.forEach: one flat fill for a base entry, the shapes
\* of a grass effect entry, nothing for any other effect entry.  A command
\* keeps the entry it paints; the screen points (and the random placement of
\* each shape along its edge) are left out.
PaintEntry(r, item) ==
    IF ~item.effect
    THEN [st   |-> IF item.side = "left" THEN fillUpLeft(r.st, item.t)
                   ELSE fillUpRight(r.st, item.t),
          cmds |-> Append(r.cmds,
                          [kind |-> IF item.side = "left" THEN "fillUpLeft"
                                    ELSE "fillUpRight",
                           i |-> 0, item |-> item])]
    ELSE IF item.style = "grass"
    THEN [st   |-> triangleCorner2(triangleCorner1(r.st, item.t, item.side),
                                   item.t, item.side),
          cmds |-> r.cmds \o [i \in 1..BladeCount |->
                                [kind |-> "shape", i |-> i - 1, item |-> item]]]
    ELSE r

\* triangles.forEach over the entries a..b, in order (evaluated by halves)
RECURSIVE PaintAll(_, _, _, _)
PaintAll(r, list, a, b) ==
    IF a > b THEN r
    ELSE IF a = b THEN PaintEntry(r, list[a])
    ELSE Only({PaintAll(half, list, ((a + b) \div 2) + 1, b) :
                 half \in {PaintAll(r, list, a, (a + b) \div 2)}})

\* drawMesh(ctx, mesh) of part_000: the state it leaves and the commands it
\* issues on ctx
drawMesh(st, msh) ==
    LET triangles == MeshEntries(msh.left, "left", FALSE)
                     \o MeshEntries(msh.left, "left", TRUE)
                     \o MeshEntries(msh.right, "right", FALSE)
                     \o MeshEntries(msh.right, "right", TRUE)
    IN  Only({PaintAll([st |-> st, cmds |-> <<>>], sorted, 1, Len(sorted)) :
                sorted \in {SortByDepth(list) : list \in {triangles}}})

\* the entries App.tsx's drawMesh paints of one Map: the key and the colour
FlatEntries(m, side) ==
    [i \in 1..Len(m) |-> [t |-> m[i].t, side |-> side, effect |-> FALSE,
                          color |-> m[i].v]]

\* drawMesh(ctx, mesh) of App.tsx: every left triangle, then every right
\* triangle, each Map in its insertion order
drawMeshApp(st, msh) ==
    Only({PaintAll([st |-> st, cmds |-> <<>>], list, 1, Len(list)) :
            list \in {FlatEntries(msh.left, "left") \o FlatEntries(msh.right, "right")}})

-----------------------------------------------------------------------------
(* drawScene *)

\* the lightness drawScene adds for a face the sun reaches, times 600:
\* 0.2 in App.tsx, 0.3 in part_000
ShadowBonus == IF variant = "App.tsx" THEN 120 ELSE 180

\* a plausible slip: the two branches of the shadow term are swapped
TopLightSwapped(cube, shadowed) ==
    (IF shadowed THEN ShadowBonus ELSE 0) + 30 * cube.cy + 48

\* (castSunRay(...) ? 0 : 0.3) + cube.cy / 20 + 0.08
TopLight(cube, shadowed) ==
    (IF shadowed THEN 0 ELSE ShadowBonus) + 30 * cube.cy + 48

\* (castSunRay(...) ? 0 : 0.3) + cube.cz / 20 + 0.25
RightLight(cube, shadowed) ==
    (IF shadowed THEN 0 ELSE ShadowBonus) + 30 * cube.cz + 150

\* cube.cx / 30
LeftLight(cube) == 20 * cube.cx

\* The body of cubes.forEach for one cube.  d is the render so far: the
\* machine, whether a gradient has thrown, and the log of what was computed
\* for each cube.  rnd is what Math.random() gives perturbColor.
SceneStep(d, cubes, surface, cube, rnd) ==
    IF d.err THEN d
    ELSE
    LET f1 == Pt3Shift(d.st, cube, 0, 1, 0)
        r1 == castSunRay(f1.st, Members(cubes), f1.obj, DefaultMaxDistance, DefaultStepQ)
        topV == TopLight(cube, r1.result)
        topC == interpolateRGB(surface.top, topV)
        f2 == Pt3Shift(r1.st, cube, 0, 0, 1)
        r2 == castSunRay(f2.st, Members(cubes), f2.obj, DefaultMaxDistance, DefaultStepQ)
        rightV == RightLight(cube, r2.result)
        rightC == interpolateRGB(surface.right, rightV)
        leftV == LeftLight(cube)
        leftC == interpolateRGB(surface.left, leftV)
        rays == << [face |-> "top", from |-> f1.obj, result |-> r1.result],
                   [face |-> "right", from |-> f2.obj, result |-> r2.result] >>
    IN  IF ~topC.ok
        THEN [d EXCEPT !.st = r1.st, !.err = TRUE]
        ELSE IF ~rightC.ok \/ ~leftC.ok
        THEN [d EXCEPT !.st = r2.st, !.err = TRUE]
        ELSE [st  |-> cubeDepth(r2.st, cube,
                        IF variant = "App.tsx"
                        THEN [top   |-> [color |-> topC.rgb],
                              right |-> [color |-> rightC.rgb],
                              left  |-> [color |-> leftC.rgb]]
                        ELSE [top   |-> [style |-> "grass",
                                         color |-> perturbColor(topC.rgb, TopJitter, rnd)],
                              right |-> [style |-> "stone", color |-> rightC.rgb],
                              left  |-> [style |-> "stone", color |-> leftC.rgb]]),
              err |-> FALSE,
              log |-> Append(d.log, [cube |-> cube, rays |-> rays,
                                     light |-> [top |-> topV, right |-> rightV,
                                                left |-> leftV],
                                     flat |-> [top |-> topC.rgb, right |-> rightC.rgb,
                                               left |-> leftC.rgb]])]

\* cubes.forEach from the i-th cube on
RECURSIVE SceneLoop(_, _, _, _, _)
SceneLoop(d, cubes, surface, rnds, i) ==
    IF i > Len(cubes) THEN d
    ELSE LET e == SceneStep(d, cubes, surface, cubes[i], rnds[i])
         IN  IF e.err THEN e ELSE SceneLoop(e, cubes, surface, rnds, i + 1)

\* the strength App.tsx perturbs every colour it draws with: 0.015, times
\* 100*600
MapJitter == 900

\* depthMesh.map(({ color }) => perturbColor(color, strength)): Mesh.map
\* copies the left Map, then the right one; draws[k] is what Math.random
\* gives for the k-th value copied (the draws are taken round and round)
MeshMapPerturb(msh, strength, draws) ==
    LET draw(k) == draws[((k - 1) % Len(draws)) + 1]
        copy(m, base) ==
            [i \in 1..Len(m) |->
                [t |-> m[i].t,
                 v |-> perturbColor(m[i].v.color, strength, draw(base + i))]]
    IN  [left |-> copy(msh.left, 0), right |-> copy(msh.right, Len(msh.left))]

\* drawScene(ctx, cubes, surface): a fresh depthMesh, every cube stamped,
\* and (unless a gradient threw) the mesh drawn: as it is in part_000, its
\* perturbed copy in App.tsx.  rnds are the draws of Math.random: one
\* triple a cube in part_000, one a copied value in App.tsx.
drawScene(st, cubes, surface, rnds) ==
    Only({ IF d.err
           THEN [st |-> d.st, err |-> TRUE, log |-> d.log, paint |-> <<>>]
           ELSE Only({ [st |-> p.st, err |-> FALSE, log |-> d.log, paint |-> p.cmds] :
                       p \in {IF variant = "App.tsx"
                              THEN drawMeshApp(d.st, MeshMapPerturb(d.st.mesh, MapJitter, rnds))
                              ELSE drawMesh(d.st, d.st.mesh)} }) :
           d \in {SceneLoop([st |-> [st EXCEPT !.mesh = EmptyMesh, !.upd = <<>>],
                             err |-> FALSE, log |-> <<>>],
                            cubes, surface, rnds, 1)} })

-----------------------------------------------------------------------------
(* The state a specification starts from: nothing constructed, nothing drawn *)

Init ==
    /\ variant \in Variants
    /\ triCache = <<>>
    /\ pt3Cache = <<>>
    /\ nextId = 1
    /\ built = <<>>
    /\ mesh = EmptyMesh
    /\ stamps = <<>>
    /\ writes = <<>>
    /\ last = [op |-> "none", n |-> 0]
    /\ canvas = <<>>

\* the machine as the variables hold it
Now == Machine(triCache, pt3Cache, nextId, mesh)

\* the variables take the caches and the counter of machine state st
Cached(st) ==
    /\ triCache' = st.tri
    /\ pt3Cache' = st.p3
    /\ nextId' = st.next

-----------------------------------------------------------------------------
(* SpecCache: a client that constructs TriPt and Pt3 values *)

TriObjs == {built[i].obj : i \in {j \in 1..Len(built) : built[j].kind = "TriPt"}}
Pt3Objs == {built[i].obj : i \in {j \in 1..Len(built) : built[j].kind = "Pt3"}}

Record(r, kind, coords) ==
    /\ Cached(r.st)
    /\ built' = Append(built, [kind |-> kind, coords |-> coords, obj |-> r.obj])
    /\ UNCHANGED <<variant, writes, mesh, stamps, last, canvas>>

\* new TriPt(tx, ty)
CallNewTriPt ==
    /\ Len(built) < MaxBuilds
    /\ \E tx \in CacheCoords, ty \in CacheCoords :
          Record(NewTriPt(Now, tx, ty), "TriPt", <<tx, ty>>)

\* pt3(cx, cy, cz)
CallPt3 ==
    /\ Len(built) < MaxBuilds
    /\ \E cx \in CacheCoords, cy \in CacheCoords, cz \in CacheCoords :
          Record(pt3(Now, cx, cy, cz), "Pt3", <<cx, cy, cz>>)

\* c.shift(dx, dy) on a TriPt the client holds
CallTriShift ==
    /\ Len(built) < MaxBuilds
    /\ \E c \in TriObjs, d \in TriShifts :
          Record(TriShift(Now, c, d[1], d[2]), "TriPt",
                 <<c.tx + d[1], c.ty + d[2]>>)

\* p.shift(dx, dy, dz) on a Pt3 the client holds
CallPt3Shift ==
    /\ Len(built) < MaxBuilds
    /\ \E p \in Pt3Objs, d \in Pt3Shifts :
          Record(Pt3Shift(Now, p, d[1], d[2], d[3]), "Pt3",
                 <<p.cx + d[1], p.cy + d[2], p.cz + d[3]>>)

\* p.tri() on a Pt3 the client holds
CallPt3Tri ==
    /\ Len(built) < MaxBuilds
    /\ \E p \in Pt3Objs :
          Record(Pt3Tri(Now, p), "TriPt", <<p.cx + p.cz, p.cy - p.cz>>)

NextCache ==
    \/ CallNewTriPt
    \/ CallPt3
    \/ CallTriShift
    \/ CallPt3Shift
    \/ CallPt3Tri

SpecCache == Init /\ [][NextCache]_vars

(* C1: after any sequence of constructions, two values of one class built  *)
(* from equal coordinates are the same object and two built from different *)
(* coordinates are different objects (each carrying the coordinates asked  *)
(* for); and neither cache ever loses or rebinds a key.                    *)
Canonical ==
    \A i \in 1..Len(built), j \in 1..Len(built) :
        built[i].kind = built[j].kind =>
            ((built[i].coords = built[j].coords) <=> (built[i].obj = built[j].obj))

CoordsKept ==
    \A i \in 1..Len(built) :
        IF built[i].kind = "TriPt"
        THEN <<built[i].obj.tx, built[i].obj.ty>> = built[i].coords
        ELSE <<built[i].obj.cx, built[i].obj.cy, built[i].obj.cz>> = built[i].coords

CachesGrow ==
    /\ \A k \in DOMAIN triCache : k \in DOMAIN triCache' /\ triCache'[k] = triCache[k]
    /\ \A k \in DOMAIN pt3Cache : k \in DOMAIN pt3Cache' /\ pt3Cache'[k] = pt3Cache[k]

C1_Canonicalization == [](Canonical /\ CoordsKept) /\ [][CachesGrow]_vars

\* three constructions of one class: the first and the third asked for the
\* same coordinates (one of them through shift() or tri()), the second for
\* other coordinates
C1_Witness ==
    /\ Len(built) = 3
    /\ built[1].kind = "TriPt" /\ built[2].kind = "TriPt" /\ built[3].kind = "TriPt"
    /\ built[1].coords = built[3].coords
    /\ built[1].obj = built[3].obj
    /\ built[2].coords # built[1].coords
    /\ built[2].obj # built[1].obj
    /\ Cardinality(DOMAIN triCache) = 2

-----------------------------------------------------------------------------
(* SpecStamp: a client that stamps voxels onto one mesh with cubeDepth *)

\* an RGB, each channel times 100*600
Red == <<60000, 0, 0>>
Green == <<0, 60000, 0>>
Blue == <<0, 0, 60000>>

\* the Triplet<{color, style}> values handed to cubeDepth
Surfaces ==
    { [top   |-> [color |-> Red, style |-> "grass"],
       right |-> [color |-> Green, style |-> "stone"],
       left  |-> [color |-> Blue, style |-> "stone"]],
      [top   |-> [color |-> <<30000, 30000, 0>>, style |-> "stone"],
       right |-> [color |-> <<0, 30000, 30000>>, style |-> "grass"],
       left  |-> [color |-> <<30000, 0, 30000>>, style |-> "grass"]] }

\* cubeDepth(mesh, pt3(v), surface)
Stamp ==
    /\ Len(stamps) < MaxStamps
    /\ \E v \in StampVoxels, surface \in Surfaces :
          \E a \in {pt3(Now, v[1], v[2], v[3])} :
          \E st \in {cubeDepth(a.st, a.obj, surface)} :
              /\ Cached(st)
              /\ mesh' = st.mesh
              /\ stamps' = Append(stamps, [p |-> a.obj, surface |-> surface,
                                           upd |-> st.upd, before |-> mesh])
              /\ last' = [op |-> "cubeDepth", n |-> last.n + 1]
              /\ UNCHANGED <<variant, writes, built, canvas>>

NextStamp == Stamp

SpecStamp == Init /\ [][NextStamp]_vars

\* the mesh as stamp number i left it
MeshAfter(i) == IF i = Len(stamps) THEN mesh ELSE stamps[i + 1].before

\* the triangle keys a mesh holds a value at
PopulatedKeys(msh) ==
    UNION {{[t |-> msh[side][i].t, side |-> side] : i \in 1..Len(msh[side])} : side \in Sides}

\* the face whose closure made the k-th Mesh.update call of a cubeDepth call
FaceOfUpdate(k) == IF k <= 2 THEN "top" ELSE IF k <= 4 THEN "right" ELSE "left"

(* C2: across any sequence of cubeDepth stamps on one mesh, a populated    *)
(* cell changes only under a stamp whose depth is strictly smaller than    *)
(* the stored depth (and then holds that stamp's depth); a stamp of equal  *)
(* or larger depth leaves depth, colour and style as they were; the depth  *)
(* stored at a key never increases and no key is ever emptied.             *)
C2_NearerWins ==
    \A i \in 1..Len(stamps) :
        \A key \in PopulatedKeys(stamps[i].before) :
            LET old == MeshGet(stamps[i].before, key.t, key.side)
                new == MeshGet(MeshAfter(i), key.t, key.side)
                d == Depth(stamps[i].p)
            IN  /\ new # Null
                /\ new # old => (d < old.depth /\ new.depth = d)
                /\ d >= old.depth => new = old
                /\ new.depth <= old.depth

\* a cell survived a second stamp of the same depth and another colour, and
\* then a third, nearer stamp replaced it
C2_Witness ==
    /\ Len(stamps) = 3
    /\ \E key \in PopulatedKeys(stamps[2].before) :
          LET c1 == MeshGet(stamps[2].before, key.t, key.side)
              c2 == MeshGet(stamps[3].before, key.t, key.side)
              c3 == MeshGet(mesh, key.t, key.side)
          IN  /\ \E k \in 1..6 : stamps[2].upd[k] = key
              /\ Depth(stamps[2].p) = c1.depth
              /\ stamps[2].surface # stamps[1].surface
              /\ c2 = c1
              /\ c3.depth < c2.depth
              /\ c3.color # c2.color

(* C3: when exactly two voxels have been stamped and they stamp a common   *)
(* triangle key with depths d1 < d2, the cell at that key holds the colour *)
(* (and depth) of the d1 voxel's face, whichever of the two went first.    *)
C3_OcclusionEitherOrder ==
    Len(stamps) = 2 =>
        \A i \in 1..2, j \in 1..2, a \in 1..6, b \in 1..6 :
            (/\ i # j
             /\ stamps[i].upd[a] = stamps[j].upd[b]
             /\ Depth(stamps[i].p) < Depth(stamps[j].p))
            => LET key == stamps[i].upd[a]
                   cell == MeshGet(mesh, key.t, key.side)
               IN  /\ cell.color = stamps[i].surface[FaceOfUpdate(a)].color
                   /\ cell.depth = Depth(stamps[i].p)

\* the nearer voxel went first, the farther one second, with other colours
C3_Witness ==
    /\ Len(stamps) = 2
    /\ Depth(stamps[1].p) < Depth(stamps[2].p)
    /\ stamps[1].surface # stamps[2].surface
    /\ \E a \in 1..6, b \in 1..6 :
          /\ stamps[1].upd[a] = stamps[2].upd[b]
          /\ MeshGet(mesh, stamps[1].upd[a].t, stamps[1].upd[a].side).color
                = stamps[1].surface[FaceOfUpdate(a)].color

\* the keys, as coordinates and side, that the Mesh.update calls a..b of
\* stamp s went to
UpdKeys(s, a, b) ==
    {<<s.upd[k].t.tx, s.upd[k].t.ty, s.upd[k].side>> : k \in a..b}

\* exactly the voxels (0,0,0) and (0,0,1) have been stamped, once each
BothStamped ==
    /\ Len(stamps) = 2
    /\ {Coords3(stamps[1].p), Coords3(stamps[2].p)} = {<<0, 0, 0>>, <<0, 0, 1>>}

StampOf(v) == stamps[CHOOSE i \in 1..Len(stamps) : Coords3(stamps[i].p) = v]

\* C6 as the specification states it: the two up faces share a key, and the
\* cell there holds the top colour of (0,0,1)
C6_AsStated ==
    BothStamped =>
        LET far == StampOf(<<0, 0, 0>>)
            near == StampOf(<<0, 0, 1>>)
        IN  /\ Depth(near.p) < Depth(far.p)
            /\ \E k \in 1..2, l \in 1..2 :
                  /\ far.upd[k] = near.upd[l]
                  /\ MeshGet(mesh, near.upd[l].t, near.upd[l].side).color
                        = near.surface.top.color

(* C6, amended: the up faces of (0,0,0) and (0,0,1) stamp no common key;   *)
(* the keys (0,0,1) shares with (0,0,0) are the two of (0,0,0)'s right     *)
(* face, ((1,-1), left) through its up face and ((0,-1), right) through    *)
(* its left face; (0,0,1) has the smaller depth key, and after both are    *)
(* stamped each common cell holds the colour of (0,0,1)'s face there, in   *)
(* either stamp order.                                                     *)
C6_FrontVoxelCoversRightFace ==
    BothStamped =>
        LET far == StampOf(<<0, 0, 0>>)
            near == StampOf(<<0, 0, 1>>)
        IN  /\ Depth(near.p) < Depth(far.p)
            /\ UpdKeys(far, 1, 2) \cap UpdKeys(near, 1, 2) = {}
            /\ UpdKeys(far, 1, 6) \cap UpdKeys(near, 1, 6) = UpdKeys(far, 3, 4)
            /\ UpdKeys(far, 3, 4) \cap UpdKeys(near, 1, 2) = {<<1, -1, "left">>}
            /\ UpdKeys(far, 3, 4) \cap UpdKeys(near, 5, 6) = {<<0, -1, "right">>}
            /\ \A k \in 3..4, l \in 1..6 :
                  far.upd[k] = near.upd[l] =>
                      MeshGet(mesh, near.upd[l].t, near.upd[l].side)
                        = [depth |-> Depth(near.p),
                           color |-> near.surface[FaceOfUpdate(l)].color,
                           style |-> near.surface[FaceOfUpdate(l)].style]

\* (0,0,1) was stamped first and (0,0,0) second, in other colours
C6_Witness ==
    /\ BothStamped
    /\ Coords3(stamps[1].p) = <<0, 0, 1>>
    /\ stamps[1].surface # stamps[2].surface
    /\ MeshGet(mesh, stamps[1].upd[1].t, "left").color = stamps[1].surface.top.color
    /\ stamps[1].upd[2] = stamps[2].upd[3]

-----------------------------------------------------------------------------
(* SpecFace: a client that calls cubeFace with callbacks of its own *)

\* the corners cubeFace is called at
FaceCorners == {<<0, 0>>, <<1, -1>>, <<0, 1>>, <<-3, 7>>}

CellA == [depth |-> 0, color |-> Red, style |-> "grass"]
CellB == [depth |-> 100, color |-> Blue, style |-> "stone"]

\* the callbacks cubeFace is called with
Changes ==
    { [kind |-> "const", v |-> CellA],
      [kind |-> "keep", v |-> CellB],
      [kind |-> "depth", depth |-> 50, face |-> [color |-> Green, style |-> "stone"]] }

\* cubeFace(mesh, new TriPt(tx, ty), face, change)
CallCubeFace ==
    /\ last.n < MaxFaceCalls
    /\ \E xy \in FaceCorners, face \in Faces, change \in Changes :
          \E a \in {NewTriPt(Now, xy[1], xy[2])} :
          \E st \in {cubeFace(a.st, a.obj, face, change)} :
              /\ Cached(st)
              /\ mesh' = st.mesh
              /\ last' = [op |-> "cubeFace", n |-> last.n + 1, c |-> a.obj,
                           face |-> face, change |-> change, upd |-> st.upd,
                           before |-> mesh]
              /\ UNCHANGED <<variant, writes, built, stamps, canvas>>

NextFace == CallCubeFace

SpecFace == Init /\ [][NextFace]_vars

\* the offset table of the specification, as coordinates and sides
FaceTable(tx, ty, face) ==
    CASE face = "up"    -> << <<tx, ty, "right">>, <<tx, ty, "left">> >>
      [] face = "right" -> << <<tx + 1, ty - 1, "left">>, <<tx, ty - 1, "right">> >>
      [] face = "left"  -> << <<tx, ty - 1, "left">>, <<tx - 1, ty, "right">> >>

(* C4: a cubeFace call makes exactly two Mesh.update calls, at the two     *)
(* keys of the face's row of the offset table; the two keys are distinct,  *)
(* each ends up holding what the callback returned for the value it held   *)
(* before, and every other key of the mesh is as it was.                   *)
C4_FaceTable ==
    last.op = "cubeFace" =>
        LET want == FaceTable(last.c.tx, last.c.ty, last.face)
            got == last.upd
        IN  /\ Len(got) = 2
            /\ \A k \in 1..2 : <<got[k].t.tx, got[k].t.ty, got[k].side>> = want[k]
            /\ got[1] # got[2]
            /\ \A k \in 1..2 :
                  MeshGet(mesh, got[k].t, got[k].side)
                    = ApplyChange(last.change, MeshGet(last.before, got[k].t, got[k].side))
            /\ \A key \in PopulatedKeys(mesh) \cup PopulatedKeys(last.before) :
                  key \notin {got[1], got[2]} =>
                      MeshGet(mesh, key.t, key.side) = MeshGet(last.before, key.t, key.side)

\* the right face stamped onto a mesh that already held values elsewhere
\* and at one of the two keys
C4_Witness ==
    /\ last.op = "cubeFace"
    /\ last.face = "right"
    /\ PopulatedKeys(last.before) \ {last.upd[1], last.upd[2]} # {}
    /\ last.upd[1] \in PopulatedKeys(last.before)
    /\ MeshGet(mesh, last.upd[1].t, "left") # MeshGet(last.before, last.upd[1].t, "left")

-----------------------------------------------------------------------------
(* Scenes: the voxel sets an external scene builder hands over *)

\* the sequences of distinct voxels of SceneVoxels, up to MaxCubes long: a
\* Set<Pt3> in the order its members were added
Scenes ==
    UNION { {s \in [1..n -> SceneVoxels] : \A i \in 1..n, j \in 1..n : i # j => s[i] # s[j]}
            : n \in 0..MaxCubes }

\* cubes.add(pt3(x, y, z)) for each voxel of the scene from the i-th on
RECURSIVE BuildScene(_, _, _, _)
BuildScene(st, scene, i, cubes) ==
    IF i > Len(scene)
    THEN [st |-> st, cubes |-> cubes]
    ELSE LET a == pt3(st, scene[i][1], scene[i][2], scene[i][3])
         IN  BuildScene(a.st, scene, i + 1, Append(cubes, a.obj))

-----------------------------------------------------------------------------
(* SpecRay: one castSunRay call on a scene *)

RayOrigins == {<<0, 0, 0>>, <<0, 1, 0>>, <<0, 0, 1>>, <<-1, 0, 0>>}

\* maxDistance and stepSize (in quarters): the defaults, and shorter rays
RayParams ==
    { [maxDistance |-> DefaultMaxDistance, stepQ |-> DefaultStepQ],
      [maxDistance |-> 1, stepQ |-> 2],
      [maxDistance |-> 3, stepQ |-> 4],
      [maxDistance |-> 0, stepQ |-> 1] }

\* castSunRay(cubes, pt3(o), maxDistance, stepSize)
CallCastSunRay ==
    /\ last.op = "none"
    /\ \E scene \in Scenes, o \in RayOrigins, par \in RayParams :
          \E b \in {BuildScene(Now, scene, 1, <<>>)} :
          \E f \in {pt3(b.st, o[1], o[2], o[3])} :
          \E r \in {castSunRay(f.st, Members(b.cubes), f.obj,
                                par.maxDistance, par.stepQ)} :
              /\ Cached(r.st)
              /\ last' = [op |-> "castSunRay", n |-> last.n + 1,
                           cubes |-> Members(b.cubes), from |-> f.obj,
                           maxDistance |-> par.maxDistance, stepQ |-> par.stepQ,
                           result |-> r.result, samples |-> r.samples]
              /\ UNCHANGED <<variant, writes, built, mesh, stamps, canvas>>

NextRay == CallCastSunRay

SpecRay == Init /\ [][NextRay]_vars

\* the voxel on the sun ray from `from` at parameter tq/4: x advances by 1
\* per unit, y by 19/20 per unit, z stays
SunRayAt(from, tq) ==
    <<from.cx + ((tq + 2) \div 4), from.cy + ((19 * tq + 40) \div 80), from.cz>>

\* some sample of the ray from `from` is a voxel of `cubes`
SunRayHits(cubes, from, maxDistance, stepQ) ==
    \E n \in 0..(4 * maxDistance) :
        /\ n * stepQ < 4 * maxDistance
        /\ SunRayAt(from, n * stepQ) \in {Coords3(c) : c \in cubes}

C8_AsStated ==
    last.op = "castSunRay" =>
        \E k \in 1..19 :
            \A i \in 1..Len(last.samples) :
                LET tq == (i - 1) * last.stepQ
                IN  Coords3(last.samples[i])
                      = << last.from.cx + ((tq + 2) \div 4),
                           last.from.cy + ((k * tq + 40) \div 80),
                           last.from.cz + ((tq + 2) \div 4) >>

(* C8, amended: the sun ray advances x by 1 per unit of parametric         *)
(* distance t and y by the fixed fraction 0.95 (0 < 0.95 < 1); z does not  *)
(* advance: the voxel tested at t is                                       *)
(* (round(from.cx + t), round(from.cy + 0.95*t), from.cz).                 *)
C8_SunRayDirection ==
    last.op = "castSunRay" =>
        \A i \in 1..Len(last.samples) :
            Coords3(last.samples[i]) = SunRayAt(last.from, (i - 1) * last.stepQ)

\* a default ray that ran its whole length: 80 samples, the last of them 19
\* to the right and 19 up, in the plane of its origin
C8_Witness ==
    /\ last.op = "castSunRay"
    /\ ~last.result
    /\ Len(last.samples) = 80
    /\ Coords3(last.samples[80])
         = <<last.from.cx + 20, last.from.cy + 19, last.from.cz>>

-----------------------------------------------------------------------------
(* SpecScene: one render of a scene, as App's layout effect runs it *)

\* single-stop gradients: constant functions (the scenario of the
\* specification: top (1,0,0), right (0,1,0), left (0,0,1))
ConstPalette ==
    [top |-> << <<100, 0, 0>> >>, right |-> << <<0, 100, 0>> >>,
     left |-> << <<0, 0, 100>> >>]

\* gradients with several stops (stops of the source's palettes that are
\* whole hundredths)
GradPalette ==
    [top   |-> << <<60, 50, 65>>, <<90, 70, 85>>, <<95, 80, 90>> >>,
     right |-> << <<55, 55, 60>>, <<70, 70, 80>>, <<80, 80, 85>> >>,
     left  |-> << <<40, 30, 30>>, <<50, 45, 30>> >>]

\* palettes with a gradient that was given no colour stops: the first one
\* drawScene calls, and the last
NoTopPalette == [GradPalette EXCEPT !.top = <<>>]
NoLeftPalette == [ConstPalette EXCEPT !.left = <<>>]

Palettes == {ConstPalette, GradPalette, NoTopPalette, NoLeftPalette}

\* what Math.random() * 2 - 1 gives perturbColor for the three channels, in
\* halves: no jitter at all, or some
Randoms == {<<0, 0, 0>>, <<1, -2, 0>>}

\* drawScene(ctx, cubes, surface) on the scene a builder has made
Render ==
    /\ last.op = "none"
    /\ \E scene \in Scenes, surface \in Palettes :
          \E rnds \in [1..Len(scene) -> Randoms] :
            \E b \in {BuildScene(Now, scene, 1, <<>>)} :
            \E r \in {drawScene(b.st, b.cubes, surface, rnds)} :
                /\ Cached(r.st)
                /\ mesh' = r.st.mesh
                /\ canvas' = canvas \o r.paint
                /\ last' = [op |-> "drawScene", n |-> last.n + 1, cubes |-> b.cubes,
                             surface |-> surface, rnds |-> rnds, err |-> r.err,
                             log |-> r.log]
                /\ UNCHANGED <<variant, writes, built, stamps>>

NextScene == Render

SpecScene == Init /\ [][NextScene]_vars

-----------------------------------------------------------------------------
(* Properties of one render *)

\* the keys a mesh is populated at, as <<tx, ty, side>>
KeysOf(msh) == {<<k.t.tx, k.t.ty, k.side>> : k \in PopulatedKeys(msh)}

\* the colour the mesh holds at a key it is populated at
ColorAt(msh, key) ==
    LET m == msh[key[3]]
    IN  m[CHOOSE i \in 1..Len(m) : m[i].t.tx = key[1] /\ m[i].t.ty = key[2]].v.color

\* the scene of the one voxel (0,0,0) has been rendered with the three
\* constant gradients
SingleVoxelRendered ==
    /\ last.op = "drawScene"
    /\ ~last.err
    /\ Len(last.cubes) = 1
    /\ Coords3(last.cubes[1]) = <<0, 0, 0>>
    /\ last.surface = ConstPalette

\* the pairs of keys of the three faces of the voxel at corner (0,0)
UpPair == {<<0, 0, "right">>, <<0, 0, "left">>}
RightPair == {<<1, -1, "left">>, <<0, -1, "right">>}
LeftPair == {<<0, -1, "left">>, <<-1, 0, "right">>}

\* C5 as the specification states it: the six keys, each with the colour
\* its face has in the palette
C5_AsStated ==
    SingleVoxelRendered =>
        /\ KeysOf(mesh) = UpPair \cup RightPair \cup LeftPair
        /\ \A k \in UpPair : ColorAt(mesh, k) = Red
        /\ \A k \in RightPair : ColorAt(mesh, k) = Green
        /\ \A k \in LeftPair : ColorAt(mesh, k) = Blue

(* C5, amended: rendering the one voxel (0,0,0) with three distinct        *)
(* constant face colours leaves the mesh populated at exactly six distinct *)
(* keys, the up pair at corner (0,0), the right pair at (1,-1)/(0,-1) and  *)
(* the left pair at (0,-1)/(-1,0); the right and left pairs carry their    *)
(* face's colour; the two keys of the up pair carry one common colour,     *)
(* which in part_000 is the top colour after perturbColor (each channel    *)
(* within 0.05 of it) and in App.tsx the top colour itself.                *)
C5_SingleVoxelMesh ==
    SingleVoxelRendered =>
        /\ KeysOf(mesh) = UpPair \cup RightPair \cup LeftPair
        /\ Cardinality(KeysOf(mesh)) = 6
        /\ Len(mesh.left) + Len(mesh.right) = 6
        /\ \A k \in RightPair : ColorAt(mesh, k) = Green
        /\ \A k \in LeftPair : ColorAt(mesh, k) = Blue
        /\ \A k \in UpPair, l \in UpPair : ColorAt(mesh, k) = ColorAt(mesh, l)
        /\ \A k \in UpPair, i \in 1..3 :
              LET off == ColorAt(mesh, k)[i] - Red[i]
              IN  IF variant = "App.tsx" THEN off = 0
                  ELSE off <= TopJitter /\ 0 - off <= TopJitter

\* part_000 has rendered the voxel, and the draws of Math.random moved its
\* top colour
C5_Witness ==
    /\ SingleVoxelRendered
    /\ variant = "part_000"
    /\ ColorAt(mesh, <<0, 0, "right">>) # Red
    /\ ColorAt(mesh, <<1, -1, "left">>) = Green

\* the outward normals of the three faces a voxel shows
Normal(face) ==
    CASE face = "top" -> <<0, 1, 0>>
      [] face = "right" -> <<0, 0, 1>>
      [] face = "left" -> <<-1, 0, 0>>

\* a position: what SunRayHits needs of a Pt3
Shifted(c, d) == [cx |-> c.cx + d[1], cy |-> c.cy + d[2], cz |-> c.cz + d[3]]

\* the positional bias plus the offset of a face, times 600
FaceBase(face, c) ==
    CASE face = "top" -> 30 * c.cy + 48
      [] face = "right" -> 30 * c.cz + 150
      [] face = "left" -> 20 * c.cx

\* C9 as the specification states it: each of the three faces has a shadow
\* term, from a ray cast at the voxel shifted along the face's normal
C9_AsStated ==
    last.op = "drawScene" =>
        \A i \in 1..Len(last.log) :
            \A face \in {"top", "right", "left"} :
                LET e == last.log[i]
                IN  \E k \in 1..Len(e.rays) :
                        /\ e.rays[k].face = face
                        /\ Coords3(e.rays[k].from)
                             = Coords3(Shifted(e.cube, Normal(face)))
                        /\ e.light[face] = FaceBase(face, e.cube)
                              + (IF e.rays[k].result THEN 0 ELSE ShadowBonus)

(* C9, amended: for every voxel, drawScene computes the lightness of the   *)
(* top and of the right face from a positional bias (cy/20, cz/20), a      *)
(* face-specific offset (0.08, 0.25) and a binary shadow term from         *)
(* castSunRay evaluated (with its default maxDistance and stepSize) at the *)
(* voxel shifted one unit along that face's outward normal ((0,1,0),       *)
(* (0,0,1)), the term adding 0 when castSunRay returns true and a fixed    *)
(* positive bonus when it returns false; the lightness of the left face is *)
(* the positional bias cx/30 alone: no offset, no shadow term, and no ray  *)
(* is cast for it.                                                         *)
C9_FaceLightness ==
    last.op = "drawScene" =>
        /\ ShadowBonus > 0
        /\ Len(last.log) <= Len(last.cubes)
        /\ ~last.err => Len(last.log) = Len(last.cubes)
        /\ \A i \in 1..Len(last.log) :
              LET e == last.log[i]
                  shadowed(face) ==
                      SunRayHits(Members(last.cubes), Shifted(e.cube, Normal(face)),
                                 DefaultMaxDistance, DefaultStepQ)
              IN  /\ e.cube = last.cubes[i]
                  /\ Len(e.rays) = 2
                  /\ e.rays[1].face = "top" /\ e.rays[2].face = "right"
                  /\ \A k \in 1..2 :
                        LET face == e.rays[k].face
                        IN  /\ Coords3(e.rays[k].from)
                                 = Coords3(Shifted(e.cube, Normal(face)))
                            /\ e.rays[k].result <=> shadowed(face)
                            /\ e.light[face] = FaceBase(face, e.cube)
                                  + (IF shadowed(face) THEN 0 ELSE ShadowBonus)
                  /\ e.light.left = FaceBase("left", e.cube)

\* a render in which one voxel's top face is in shadow while its right face
\* is lit, and another voxel's top face is lit
C9_Witness ==
    /\ last.op = "drawScene"
    /\ ~last.err
    /\ \E i \in 1..Len(last.log), j \in 1..Len(last.log) :
          /\ last.log[i].rays[1].result
          /\ ~last.log[i].rays[2].result
          /\ ~last.log[j].rays[1].result
          /\ last.log[i].light.top < last.log[j].light.top

Fills == {i \in 1..Len(canvas) : canvas[i].kind # "shape"}

\* the flat fills of one triangle key
FillsAt(key) ==
    {i \in Fills : canvas[i].item.t = key.t /\ canvas[i].item.side = key.side}

(* C11: a render issues exactly one flat triangle fill per populated mesh  *)
(* cell (fillUpLeft for a left cell, fillUpRight for a right one) and none *)
(* for any unpopulated key; an empty voxel set yields an empty mesh and no *)
(* paint command at all, without error; a single voxel yields exactly six  *)
(* flat fills.                                                             *)
C11_OneFillPerCell ==
    last.op = "drawScene" =>
        /\ Len(last.cubes) = 0 => (~last.err /\ mesh = EmptyMesh /\ canvas = <<>>)
        /\ ~last.err =>
              /\ \A key \in PopulatedKeys(mesh) : Cardinality(FillsAt(key)) = 1
              /\ \A i \in Fills :
                    /\ [t |-> canvas[i].item.t, side |-> canvas[i].item.side]
                          \in PopulatedKeys(mesh)
                    /\ canvas[i].kind = (IF canvas[i].item.side = "left"
                                         THEN "fillUpLeft" ELSE "fillUpRight")
              /\ Cardinality(Fills) = Len(mesh.left) + Len(mesh.right)
              /\ Len(last.cubes) = 1 => Cardinality(Fills) = 6

\* a render of two voxels of which one covers part of the other: fewer
\* than twelve cells, one fill each, on both sides
C11_Witness ==
    /\ last.op = "drawScene" /\ ~last.err
    /\ Len(last.cubes) = 2
    /\ Len(mesh.left) + Len(mesh.right) < 12
    /\ Cardinality(Fills) = Len(mesh.left) + Len(mesh.right)
    /\ \E i \in Fills, j \in Fills :
          canvas[i].kind = "fillUpLeft" /\ canvas[j].kind = "fillUpRight"

\* one of the three gradients of the palette was given no colour stops
SomeGradientEmpty(surface) ==
    \E face \in {"top", "right", "left"} : Len(surface[face]) = 0

(* C12: a render fails exactly when a gradient with zero colour stops is   *)
(* invoked (some gradient of the palette has no stops and there is a voxel *)
(* to shade), and a render that fails has issued no paint command on the   *)
(* canvas and stamped nothing: every gradient evaluation of a voxel comes  *)
(* before its cubeDepth call, and every stamp before the first fill.       *)
C12_EmptyGradientFailsBeforePaint ==
    last.op = "drawScene" =>
        /\ last.err <=> (SomeGradientEmpty(last.surface) /\ Len(last.cubes) > 0)
        /\ last.err => (canvas = <<>> /\ mesh = EmptyMesh /\ last.log = <<>>)

\* a render of two voxels that failed at the last gradient of the first
\* voxel, after the rays of its top and right faces had been cast
C12_Witness ==
    /\ last.op = "drawScene"
    /\ last.err
    /\ Len(last.cubes) = 2
    /\ Len(last.surface.top) > 0 /\ Len(last.surface.left) = 0
    /\ Cardinality(DOMAIN pt3Cache) > 2 * DefaultMaxDistance
    /\ canvas = <<>>

-----------------------------------------------------------------------------
(* SpecMesh: a client that calls set, update and get on one Mesh *)

\* largest number of Mesh calls in one behaviour of SpecMesh
MaxMeshCalls == 3

\* the keys the client writes: both sides of one corner, and a neighbour
WrittenKeys == {<<0, 0, "left">>, <<0, 0, "right">>, <<1, 0, "left">>}

\* the keys the client reads: the written ones, and one nobody writes
ReadKeys == WrittenKeys \cup {<<1, 0, "right">>}

\* the values the client hands to set
SetValues == {CellA, CellB}

\* the callbacks the client hands to update
UpdateChanges == {[kind |-> "wrap", tag |-> "w"], [kind |-> "keep", v |-> CellB]}

\* mesh.set(new TriPt(tx, ty), side, v)
CallMeshSet ==
    /\ last.n < MaxMeshCalls
    /\ \E key \in WrittenKeys, v \in SetValues :
          \E a \in {NewTriPt(Now, key[1], key[2])} :
              /\ Cached(a.st)
              /\ mesh' = MeshSet(mesh, a.obj, key[3], v)
              /\ writes' = Append(writes, [op |-> "set", t |-> a.obj, side |-> key[3],
                                           v |-> v, before |-> mesh])
              /\ last' = [op |-> "set", n |-> last.n + 1]
              /\ UNCHANGED <<variant, built, stamps, canvas>>

\* mesh.update(new TriPt(tx, ty), side, change)
CallMeshUpdate ==
    /\ last.n < MaxMeshCalls
    /\ \E key \in WrittenKeys, change \in UpdateChanges :
          \E a \in {NewTriPt(Now, key[1], key[2])} :
          \E st \in {MeshUpdate(a.st, a.obj, key[3], change)} :
              /\ Cached(st)
              /\ mesh' = st.mesh
              /\ writes' = Append(writes, [op |-> "update", t |-> a.obj, side |-> key[3],
                                           change |-> change, before |-> mesh])
              /\ last' = [op |-> "update", n |-> last.n + 1]
              /\ UNCHANGED <<variant, built, stamps, canvas>>

\* mesh.get(new TriPt(tx, ty), side)
CallMeshGet ==
    /\ last.n < MaxMeshCalls
    /\ \E key \in ReadKeys :
          \E a \in {NewTriPt(Now, key[1], key[2])} :
              /\ Cached(a.st)
              /\ last' = [op |-> "get", n |-> last.n + 1, t |-> a.obj, side |-> key[3],
                           result |-> MeshGet(mesh, a.obj, key[3])]
              /\ UNCHANGED <<variant, built, mesh, stamps, writes, canvas>>

NextMesh == CallMeshSet \/ CallMeshUpdate \/ CallMeshGet

SpecMesh == Init /\ [][NextMesh]_vars

\* the mesh as the i-th write left it
MeshAfterWrite(i) == IF i = Len(writes) THEN mesh ELSE writes[i + 1].before

\* What the first n writes have left at (t, side): null if none of them was
\* at that key, else what the last of them stored there: the value handed
\* to set, or what update's callback gave for what the earlier writes had
\* left at the key.
RECURSIVE Latest(_, _, _)
Latest(n, t, side) ==
    LET at == {i \in 1..n : writes[i].t = t /\ writes[i].side = side}
    IN  IF at = {} THEN Null
        ELSE LET i == CHOOSE j \in at : \A k \in at : k <= j
             IN  IF writes[i].op = "set" THEN writes[i].v
                 ELSE ApplyChange(writes[i].change, Latest(i - 1, t, side))

(* C13: after any sequence of Mesh.set and Mesh.update calls, get(t, side) *)
(* returns null if (t, side) was never written and otherwise the value     *)
(* most recently stored at exactly that (t, side), where update stores     *)
(* what its function returns for null when the key is absent and for the   *)
(* current value otherwise; no call removes a populated key, and a write   *)
(* leaves every other key (the other side of its corner too) as it was.    *)
C13_MeshStore ==
    /\ last.op = "get" => last.result = Latest(Len(writes), last.t, last.side)
    /\ \A key \in PopulatedKeys(mesh) :
          MeshGet(mesh, key.t, key.side) = Latest(Len(writes), key.t, key.side)
    /\ \A i \in 1..Len(writes) :
          LET w == writes[i]
              after == MeshAfterWrite(i)
          IN  /\ PopulatedKeys(after) = PopulatedKeys(w.before)
                                          \cup {[t |-> w.t, side |-> w.side]}
              /\ MeshGet(after, w.t, w.side) = Latest(i, w.t, w.side)
              /\ MeshGet(after, w.t, w.side) # Null
              /\ \A key \in PopulatedKeys(w.before) :
                    (key.t # w.t \/ key.side # w.side) =>
                        MeshGet(after, key.t, key.side)
                          = MeshGet(w.before, key.t, key.side)
    /\ \A i \in 1..Len(writes) :
          [t |-> writes[i].t, side |-> writes[i].side] \in PopulatedKeys(mesh)

\* get returned what an update stored on top of a set, while the other
\* side of the same corner was never written
C13_Witness ==
    /\ last.op = "get"
    /\ Len(writes) = 2
    /\ writes[1].op = "set" /\ writes[2].op = "update"
    /\ writes[2].change.kind = "wrap"
    /\ last.result = [tag |-> "w", seen |-> writes[1].v]
    /\ MeshGet(mesh, last.t, IF last.side = "left" THEN "right" ELSE "left") = Null

-----------------------------------------------------------------------------
(* SpecFrame: a client that mixes cubeFace and cubeDepth calls on one mesh *)

\* largest number of calls in one behaviour of SpecFrame
MaxFrameCalls == 2

FrameFace == last.n < MaxFrameCalls /\ CallCubeFace

FrameStamp == last.n < MaxFrameCalls /\ Stamp

NextFrame == FrameFace \/ FrameStamp

SpecFrame == Init /\ [][NextFrame]_vars

\* the keys, as <<tx, ty, side>>, at which two meshes differ
Changed(a, b) ==
    {<<key.t.tx, key.t.ty, key.side>> :
        key \in {k \in PopulatedKeys(a) \cup PopulatedKeys(b) :
                    MeshGet(a, k.t, k.side) # MeshGet(b, k.t, k.side)}}

\* the two cells of a face's row of the offset table
FaceCells(tx, ty, face) ==
    {FaceTable(tx, ty, face)[1], FaceTable(tx, ty, face)[2]}

\* the six cells of the three faces of voxel p
VoxelCells(p) ==
    UNION {FaceCells(p.cx + p.cz, p.cy - p.cz, face) : face \in Faces}

(* C14: a cubeFace call changes at most the two mesh cells of its face's   *)
(* row of the offset table, and a cubeDepth call at most the six cells of  *)
(* the voxel's three faces; every other cell of the mesh, populated or     *)
(* not, is as it was before the call.                                      *)
C14_StampFrame ==
    /\ last.op = "cubeFace" =>
          /\ Changed(last.before, mesh) \subseteq FaceCells(last.c.tx, last.c.ty, last.face)
          /\ Cardinality(Changed(last.before, mesh)) <= 2
          /\ PopulatedKeys(last.before) \subseteq PopulatedKeys(mesh)
    /\ last.op = "cubeDepth" =>
          LET s == stamps[Len(stamps)]
          IN  /\ Changed(s.before, mesh) \subseteq VoxelCells(s.p)
              /\ Cardinality(Changed(s.before, mesh)) <= 6
              /\ PopulatedKeys(s.before) \subseteq PopulatedKeys(mesh)

\* a cubeDepth call on a mesh that held a value outside the voxel's six
\* cells and a nearer value at one of them: five cells change
C14_Witness ==
    /\ last.op = "cubeDepth"
    /\ LET s == stamps[Len(stamps)]
           held == {<<k.t.tx, k.t.ty, k.side>> : k \in PopulatedKeys(s.before)}
       IN  /\ held \ VoxelCells(s.p) # {}
           /\ (held \cap VoxelCells(s.p)) \ Changed(s.before, mesh) # {}
           /\ Cardinality(Changed(s.before, mesh)) = 5

-----------------------------------------------------------------------------
(* SpecDepth: two distinct voxels stamped onto one fresh mesh *)

\* the voxels of SpecDepth have their coordinates in -MaxCoord..MaxCoord
MaxCoord == 1

PairVoxels == (0 - MaxCoord)..MaxCoord

\* the keys, as <<tx, ty, side>>, of the Mesh.update calls a..b of a log
LogKeys(upd, a, b) == {<<upd[k].t.tx, upd[k].t.ty, upd[k].side>> : k \in a..b}

\* cubeDepth(mesh, pt3(p), s); cubeDepth(mesh, pt3(q), s) on a fresh mesh
StampPair ==
    /\ last.op = "none"
    /\ \E px \in PairVoxels, py \in PairVoxels, pz \in PairVoxels,
          qx \in PairVoxels, qy \in PairVoxels, qz \in PairVoxels,
          surface \in {CHOOSE x \in Surfaces : TRUE} :
          /\ <<px, py, pz>> # <<qx, qy, qz>>
          /\ \E a \in {pt3(Now, px, py, pz)} :
             \E b \in {pt3(a.st, qx, qy, qz)} :
             \E st \in {cubeDepth(cubeDepth(b.st, a.obj, surface), b.obj, surface)} :
                /\ Cached(st)
                /\ mesh' = st.mesh
                /\ last' = [op |-> "stampPair", n |-> last.n + 1,
                             p |-> a.obj, q |-> b.obj,
                             pKeys |-> LogKeys(st.upd, 1, 6),
                             qKeys |-> LogKeys(st.upd, 7, 12),
                             pDepth |-> Depth(a.obj), qDepth |-> Depth(b.obj)]
                /\ UNCHANGED <<variant, writes, built, stamps, canvas>>

NextDepth == StampPair

SpecDepth == Init /\ [][NextDepth]_vars

\* how far towards the viewer a voxel lies along the projection axis
Nearness(p) == (0 - p.cx) + p.cy + p.cz

(* C15: for two distinct voxels p and q whose cubeDepth stamps update a    *)
(* common triangle key (through any of their faces), the depth keys differ *)
(* and p.depth() < q.depth() holds exactly when p is nearer the viewer     *)
(* along the projection axis, -p.cx + p.cy + p.cz > -q.cx + q.cy + q.cz;   *)
(* with the depth coefficient of either version.                           *)
C15_DepthOrdersOverlaps ==
    (last.op = "stampPair" /\ last.pKeys \cap last.qKeys # {}) =>
        /\ last.pDepth # last.qDepth
        /\ Nearness(last.p) # Nearness(last.q)
        /\ (last.pDepth < last.qDepth) <=> (Nearness(last.p) > Nearness(last.q))

\* App.tsx's coefficient, two voxels at different corners that share a key,
\* their depth keys 0.01 apart
C15_Witness ==
    /\ last.op = "stampPair"
    /\ variant = "App.tsx"
    /\ last.pKeys \cap last.qKeys # {}
    /\ last.pKeys # last.qKeys
    /\ last.pDepth - last.qDepth = 1

-----------------------------------------------------------------------------
(* SpecOrder: one voxel set stamped in two orders, each on a fresh mesh *)

\* the colours and styles of the faces of voxel v: fixed for the voxel,
\* different from voxel to voxel and from face to face
VoxelSurface(v, tint) ==
    LET c == <<100 * (v[1] + 2) + tint, 100 * (v[2] + 2), 100 * (v[3] + 2)>>
    IN  [top   |-> [color |-> c, style |-> "grass"],
         right |-> [color |-> [c EXCEPT ![1] = @ + 10], style |-> "stone"],
         left  |-> [color |-> [c EXCEPT ![1] = @ + 20],
                    style |-> IF tint = 0 THEN "stone" ELSE "grass"]]

\* cubeDepth(mesh, pt3(v), surfaceOf(v)) for the voxels of `scene` from the
\* i-th on, in order
RECURSIVE StampAll(_, _, _, _)
StampAll(st, scene, i, tint) ==
    IF i > Len(scene) THEN st
    ELSE Only({StampAll(s, scene, i + 1, tint) :
                 s \in {cubeDepth(a.st, a.obj, VoxelSurface(scene[i], tint)) :
                          a \in {pt3(st, scene[i][1], scene[i][2], scene[i][3])}}})

\* the same voxels in two orders
StampOrders ==
    /\ last.op = "none"
    /\ \E first \in Scenes, tint \in {0, 1} :
       \E second \in {sc \in Scenes : /\ Len(sc) = Len(first)
                                      /\ Members(sc) = Members(first)} :
          \E s1 \in {StampAll(Now, first, 1, tint)} :
          \E s2 \in {StampAll([s1 EXCEPT !.mesh = EmptyMesh], second, 1, tint)} :
              /\ Cached(s2)
              /\ mesh' = s2.mesh
              /\ last' = [op |-> "stampOrders", n |-> last.n + 1, tint |-> tint,
                           first |-> first, second |-> second,
                           a |-> s1.mesh, b |-> s2.mesh]
              /\ UNCHANGED <<variant, writes, built, stamps, canvas>>

NextOrder == StampOrders

SpecOrder == Init /\ [][NextOrder]_vars

\* what a mesh holds: the populated keys and the value at each
Content(msh) ==
    {<<key.t.tx, key.t.ty, key.side, MeshGet(msh, key.t, key.side)>> :
        key \in PopulatedKeys(msh)}

(* C16: for a finite voxel set with a fixed colour (and style) per voxel   *)
(* face, the mesh left by stamping every voxel with cubeDepth - the        *)
(* populated keys and the depth, colour and style at each - is the same    *)
(* for every order in which the voxels are stamped.                        *)
C16_StampOrderIrrelevant ==
    last.op = "stampOrders" =>
        /\ Content(last.a) = Content(last.b)
        /\ Len(last.a.left) = Len(last.b.left)
        /\ Len(last.a.right) = Len(last.b.right)

\* two voxels of which one covers cells of the other, stamped in the two
\* orders: the Maps were filled in different orders and hold the same
C16_Witness ==
    /\ last.op = "stampOrders"
    /\ Len(last.first) = 2
    /\ last.first # last.second
    /\ Len(last.a.left) + Len(last.a.right) < 12
    /\ last.a # last.b
    /\ Content(last.a) = Content(last.b)

-----------------------------------------------------------------------------
(* Effect entries (part_000) *)

\* the places on the canvas of the shapes drawn for one triangle key
ShapesAt(key) ==
    {i \in 1..Len(canvas) : /\ canvas[i].kind = "shape"
                            /\ canvas[i].item.t = key.t
                            /\ canvas[i].item.side = key.side}

\* the list drawMesh walks for a mesh: base and effect entries, sorted
SortedEntries(msh) ==
    Only({SortByDepth(list) :
            list \in {MeshEntries(msh.left, "left", FALSE)
                      \o MeshEntries(msh.left, "left", TRUE)
                      \o MeshEntries(msh.right, "right", FALSE)
                      \o MeshEntries(msh.right, "right", TRUE)}})

\* the places in a list of the entries of one key, base or effect
EntriesAt(list, key, effect) ==
    {i \in 1..Len(list) : /\ list[i].t = key.t
                          /\ list[i].side = key.side
                          /\ list[i].effect = effect}

(* C17: in part_000's drawMesh every populated triangle contributes one    *)
(* base entry at its stored depth and one effect entry at that depth minus *)
(* 0.5, and the effect entry comes after the base entry of the same        *)
(* triangle in the painting order; on the canvas a grass cell gets its     *)
(* flat fill first and its twelve shapes later, a cell of any other style  *)
(* gets no shape, and no base entry draws a shape.                         *)
C17_EffectAfterBase ==
    (last.op = "drawScene" /\ ~last.err /\ variant = "part_000") =>
        \A list \in {SortedEntries(mesh)} :
            /\ Len(list) = 2 * (Len(mesh.left) + Len(mesh.right))
            /\ \A key \in PopulatedKeys(mesh) :
                  LET cell == MeshGet(mesh, key.t, key.side)
                      base == EntriesAt(list, key, FALSE)
                      eff == EntriesAt(list, key, TRUE)
                  IN  /\ Cardinality(base) = 1 /\ Cardinality(eff) = 1
                      /\ \A b \in base, e \in eff :
                            /\ list[b].depth = cell.depth
                            /\ list[e].depth = cell.depth - EffectOffset
                            /\ b < e
                      /\ Cardinality(ShapesAt(key))
                           = (IF cell.style = "grass" THEN BladeCount ELSE 0)
                      /\ \A f \in FillsAt(key), i \in ShapesAt(key) :
                            /\ f < i
                            /\ ~canvas[f].item.effect
                            /\ canvas[f].item.depth = cell.depth
                            /\ canvas[i].item.effect
                            /\ canvas[i].item.style = "grass"
                            /\ canvas[i].item.depth = cell.depth - EffectOffset
            /\ \A i \in 1..Len(canvas) :
                  canvas[i].item.effect <=> (canvas[i].kind = "shape")

\* a render that left grass cells and stone cells; the shapes of one grass
\* cell were drawn before the flat fill of a nearer cell
C17_Witness ==
    /\ last.op = "drawScene" /\ ~last.err /\ variant = "part_000"
    /\ \E key \in PopulatedKeys(mesh) :
          MeshGet(mesh, key.t, key.side).style = "stone" /\ ShapesAt(key) = {}
    /\ \E key \in PopulatedKeys(mesh) :
          /\ MeshGet(mesh, key.t, key.side).style = "grass"
          /\ Cardinality(ShapesAt(key)) = BladeCount
          /\ \E i \in ShapesAt(key), j \in Fills : i < j

=============================================================================
